---------------------------- MODULE Spec2Model ----------------------------
(***************************************************************************)
(* Leader-side replication progress tracker (raft/tracker/progress.go).    *)
(*                                                                         *)
(* A Progress is modelled as a record with the fields of the Go struct     *)
(* that the operations of progress.go read or write: Match, Next, State,   *)
(* PendingSnapshot, ProbeSent and Inflights.  RecentActive and IsLearner   *)
(* are read only by String() and written by nothing in progress.go; they   *)
(* are left out.  Each method with a pointer receiver becomes an operator  *)
(* from the Progress before the call to the Progress after it (and the     *)
(* returned value, for the methods that return one).                       *)
(*                                                                         *)
(* Log indices are uint64 in the code.  The model draws them from          *)
(* 0..MaxIndex, far below 2^64, so that n+1 and Match+1 never wrap: the    *)
(* log store assigns indices one by one from 1.                            *)
(*                                                                         *)
(* The variables op, arg, ret and old record the last call made on the     *)
(* Progress, its arguments, its returned value and the Progress before it, *)
(* so that the effect of a call can be stated over a single state.         *)
(***************************************************************************)
EXTENDS Integers, Sequences, FiniteSets

VARIABLES pr, op, arg, ret, old

vars == <<pr, op, arg, ret, old>>

\* Largest log index passed to an operation.
MaxIndex == 3

\* Largest acknowledged index in the acknowledgement-only specification.
MaxAck == 12

\* Largest Match of a Progress the fixed sequences of calls start from.
MaxMatch == 7

\* Capacity of the inflight window (configured by the leader).
InflightsCap == 3

Index == 0..MaxIndex

StateProbe == "StateProbe"

StateReplicate == "StateReplicate"

StateSnapshot == "StateSnapshot"

StateType == {StateProbe, StateReplicate, StateSnapshot}

max(a, b) == IF a > b THEN a ELSE b

min(a, b) == IF a > b THEN b ELSE a

---------------------------------------------------------------------------
\* The inflight window: the indices of the outstanding messages, oldest first.

InflightsReset(ins) == << >>

InflightsAdd(ins, i) == Append(ins, i)

\* FreeLE keeping the entry equal to the freed index.
InflightsFreeLT(ins, to) == SelectSeq(ins, LAMBDA x : x >= to)

InflightsFreeLE(ins, to) == SelectSeq(ins, LAMBDA x : x > to)

InflightsCount(ins) == Len(ins)

InflightsFull(ins) == Len(ins) = InflightsCap

\* Strictly increasing sequences over Index of at most InflightsCap entries.
Windows ==
  { s \in UNION { [1..k -> Index] : k \in 0..InflightsCap } :
      \A i \in 1..Len(s) : \A j \in 1..Len(s) : i < j => s[i] < s[j] }

---------------------------------------------------------------------------
\* The operations of Progress.

\* ResetState without the reset of the inflight window.
ResetStateKeepInflights(p, state) ==
  [p EXCEPT !.ProbeSent = FALSE,
            !.PendingSnapshot = 0,
            !.State = state]

\* ResetState without the clearing of PendingSnapshot.
ResetStateKeepPendingSnapshot(p, state) ==
  [p EXCEPT !.ProbeSent = FALSE,
            !.State = state,
            !.Inflights = InflightsReset(p.Inflights)]

\* ResetState without the clearing of ProbeSent.
ResetStateKeepProbeSent(p, state) ==
  [p EXCEPT !.PendingSnapshot = 0,
            !.State = state,
            !.Inflights = InflightsReset(p.Inflights)]

ResetState(p, state) ==
  [p EXCEPT !.ProbeSent = FALSE,
            !.PendingSnapshot = 0,
            !.State = state,
            !.Inflights = InflightsReset(p.Inflights)]

ProbeAcked(p) == [p EXCEPT !.ProbeSent = FALSE]

\* BecomeProbe reading PendingSnapshot only after ResetState has cleared it.
BecomeProbeReadsAfterReset(p) ==
  IF p.State = StateSnapshot
    THEN LET q == ResetState(p, StateProbe)
         IN  [q EXCEPT !.Next = max(q.Match + 1, q.PendingSnapshot + 1)]
    ELSE LET q == ResetState(p, StateProbe)
         IN  [q EXCEPT !.Next = q.Match + 1]

BecomeProbe(p) ==
  IF p.State = StateSnapshot
    THEN LET pendingSnapshot == p.PendingSnapshot
             q == ResetState(p, StateProbe)
         IN  [q EXCEPT !.Next = max(q.Match + 1, pendingSnapshot + 1)]
    ELSE LET q == ResetState(p, StateProbe)
         IN  [q EXCEPT !.Next = q.Match + 1]

BecomeReplicate(p) ==
  LET q == ResetState(p, StateReplicate)
  IN  [q EXCEPT !.Next = q.Match + 1]

\* BecomeSnapshot setting PendingSnapshot before ResetState clears it.
BecomeSnapshotSetsFirst(p, snapshoti) ==
  ResetState([p EXCEPT !.PendingSnapshot = snapshoti], StateSnapshot)

BecomeSnapshot(p, snapshoti) ==
  LET q == ResetState(p, StateSnapshot)
  IN  [q EXCEPT !.PendingSnapshot = snapshoti]

\* MaybeUpdate without the test Match < n around the assignment of Match.
MaybeUpdateUnguarded(p, n) ==
  LET updated == p.Match < n
      q == ProbeAcked([p EXCEPT !.Match = n])
  IN  [pr |-> [q EXCEPT !.Next = max(q.Next, n + 1)], ret |-> updated]

\* MaybeUpdate raising Next to n instead of n+1.
MaybeUpdateNextOffByOne(p, n) ==
  LET updated == p.Match < n
      q == IF updated THEN ProbeAcked([p EXCEPT !.Match = n]) ELSE p
  IN  [pr |-> [q EXCEPT !.Next = max(q.Next, n)], ret |-> updated]

\* MaybeUpdate without the call of ProbeAcked.
MaybeUpdateNoProbeAcked(p, n) ==
  LET updated == p.Match < n
      q == IF updated THEN [p EXCEPT !.Match = n] ELSE p
  IN  [pr |-> [q EXCEPT !.Next = max(q.Next, n + 1)], ret |-> updated]

\* MaybeUpdate assigning n+1 to Next instead of the larger of Next and n+1.
MaybeUpdateNextAssigned(p, n) ==
  LET updated == p.Match < n
      q == IF updated THEN ProbeAcked([p EXCEPT !.Match = n]) ELSE p
  IN  [pr |-> [q EXCEPT !.Next = n + 1], ret |-> updated]

\* MaybeUpdate leaving StateSnapshot itself once the snapshot is matched.
MaybeUpdateLeavesSnapshot(p, n) ==
  LET updated == p.Match < n
      q == IF updated THEN ProbeAcked([p EXCEPT !.Match = n]) ELSE p
      r == [q EXCEPT !.Next = max(q.Next, n + 1)]
  IN  [pr |-> IF updated /\ r.State = StateSnapshot /\ r.Match >= r.PendingSnapshot
                THEN BecomeProbe(r)
                ELSE r,
       ret |-> updated]

\* Returns the Progress after the call and the returned value.
MaybeUpdate(p, n) ==
  LET updated == p.Match < n
      q == IF updated THEN ProbeAcked([p EXCEPT !.Match = n]) ELSE p
  IN  [pr |-> [q EXCEPT !.Next = max(q.Next, n + 1)], ret |-> updated]

\* OptimisticUpdate setting Next to n instead of n+1.
OptimisticUpdateNoIncrement(p, n) == [p EXCEPT !.Next = n]

OptimisticUpdate(p, n) == [p EXCEPT !.Next = n + 1]

\* MaybeDecrTo clearing ProbeSent before it tests whether the rejection is stale.
MaybeDecrToClearsFirst(p, rejected, matchHint) ==
  IF p.State = StateReplicate
    THEN IF rejected <= p.Match
           THEN [pr |-> p, ret |-> FALSE]
           ELSE [pr |-> [p EXCEPT !.Next = p.Match + 1], ret |-> TRUE]
    ELSE IF p.Next - 1 # rejected
           THEN [pr |-> [p EXCEPT !.ProbeSent = FALSE], ret |-> FALSE]
           ELSE [pr |-> [p EXCEPT !.Next = max(min(rejected, matchHint + 1), 1),
                                  !.ProbeSent = FALSE],
                 ret |-> TRUE]

\* MaybeDecrTo taking a rejection of the matched index itself as genuine.
MaybeDecrToStrict(p, rejected, matchHint) ==
  IF p.State = StateReplicate
    THEN IF rejected < p.Match
           THEN [pr |-> p, ret |-> FALSE]
           ELSE [pr |-> [p EXCEPT !.Next = p.Match + 1], ret |-> TRUE]
    ELSE IF p.Next - 1 # rejected
           THEN [pr |-> p, ret |-> FALSE]
           ELSE [pr |-> [p EXCEPT !.Next = max(min(rejected, matchHint + 1), 1),
                                  !.ProbeSent = FALSE],
                 ret |-> TRUE]

\* MaybeDecrTo without the floor of 1 under the lowered Next.
MaybeDecrToNoFloor(p, rejected, matchHint) ==
  IF p.State = StateReplicate
    THEN IF rejected <= p.Match
           THEN [pr |-> p, ret |-> FALSE]
           ELSE [pr |-> [p EXCEPT !.Next = p.Match + 1], ret |-> TRUE]
    ELSE IF p.Next - 1 # rejected
           THEN [pr |-> p, ret |-> FALSE]
           ELSE [pr |-> [p EXCEPT !.Next = min(rejected, matchHint + 1),
                                  !.ProbeSent = FALSE],
                 ret |-> TRUE]

\* Returns the Progress after the call and the returned value.
MaybeDecrTo(p, rejected, matchHint) ==
  IF p.State = StateReplicate
    THEN IF rejected <= p.Match
           THEN [pr |-> p, ret |-> FALSE]
           ELSE [pr |-> [p EXCEPT !.Next = p.Match + 1], ret |-> TRUE]
    ELSE IF p.Next - 1 # rejected
           THEN [pr |-> p, ret |-> FALSE]
           ELSE [pr |-> [p EXCEPT !.Next = max(min(rejected, matchHint + 1), 1),
                                  !.ProbeSent = FALSE],
                 ret |-> TRUE]

\* IsPaused with StateSnapshot falling into the case of StateProbe.
IsPausedSnapshotAsProbe(p) ==
  CASE p.State = StateProbe -> p.ProbeSent
    [] p.State = StateReplicate -> InflightsFull(p.Inflights)
    [] p.State = StateSnapshot -> p.ProbeSent

\* IsPaused with StateReplicate falling into the case of StateProbe.
IsPausedReplicateAsProbe(p) ==
  CASE p.State = StateProbe -> p.ProbeSent
    [] p.State = StateReplicate -> p.ProbeSent
    [] p.State = StateSnapshot -> TRUE

IsPaused(p) ==
  CASE p.State = StateProbe -> p.ProbeSent
    [] p.State = StateReplicate -> InflightsFull(p.Inflights)
    [] p.State = StateSnapshot -> TRUE

\* The default branch of IsPaused's switch: panic("unexpected state").
IsPausedPanics(p) == p.State \notin StateType

---------------------------------------------------------------------------
\* The calls the leader makes, one action each.

\* A call of a method without a returned value.
Call(name, args, q) ==
  /\ pr' = q
  /\ op' = name
  /\ arg' = args
  /\ ret' = FALSE
  /\ old' = pr

\* A call of a method that returns a bool.
CallRet(name, args, r) ==
  /\ pr' = r.pr
  /\ op' = name
  /\ arg' = args
  /\ ret' = r.ret
  /\ old' = pr

CallBecomeProbe == Call("BecomeProbe", << >>, BecomeProbe(pr))

CallBecomeReplicate == Call("BecomeReplicate", << >>, BecomeReplicate(pr))

CallBecomeSnapshot == \E i \in Index : Call("BecomeSnapshot", <<i>>, BecomeSnapshot(pr, i))

CallMaybeUpdate == \E n \in Index : CallRet("MaybeUpdate", <<n>>, MaybeUpdate(pr, n))

CallOptimisticUpdate == \E n \in Index : Call("OptimisticUpdate", <<n>>, OptimisticUpdate(pr, n))

CallMaybeDecrTo ==
  \E rejected \in Index : \E matchHint \in Index :
    CallRet("MaybeDecrTo", <<rejected, matchHint>>, MaybeDecrTo(pr, rejected, matchHint))

CallProbeAcked == Call("ProbeAcked", << >>, ProbeAcked(pr))

\* The sender asks whether the follower is paused; the Progress is not changed.
CallIsPaused ==
  /\ ~IsPausedPanics(pr)
  /\ CallRet("IsPaused", << >>, [pr |-> pr, ret |-> IsPaused(pr)])

\* The sender marks the probe it has just sent; only a probing follower is probed.
SendProbe ==
  /\ pr.State = StateProbe
  /\ Call("SendProbe", << >>, [pr EXCEPT !.ProbeSent = TRUE])

\* The sender records the last index of the message it has just sent to a
\* replicating follower that is not paused; indices are added in order.
SendAppend ==
  \E i \in Index :
    /\ pr.State = StateReplicate
    /\ ~IsPaused(pr)
    /\ \A k \in 1..Len(pr.Inflights) : pr.Inflights[k] < i
    /\ Call("InflightsAdd", <<i>>, [pr EXCEPT !.Inflights = InflightsAdd(pr.Inflights, i)])

\* An acknowledgement frees the messages up to the acknowledged index.
FreeInflights ==
  \E i \in Index :
    Call("InflightsFreeLE", <<i>>, [pr EXCEPT !.Inflights = InflightsFreeLE(pr.Inflights, i)])

\* The Progress of a follower just added: probing from index 1.
InitProgress ==
  [Match |-> 0, Next |-> 1, State |-> StateProbe, PendingSnapshot |-> 0,
   ProbeSent |-> FALSE, Inflights |-> << >>]

\* Every Progress over the bounded indices, with Next at least 1.
AnyProgress ==
  [Match : Index, Next : 1..(MaxIndex + 1), State : StateType,
   PendingSnapshot : Index, ProbeSent : BOOLEAN, Inflights : Windows]

Init ==
  /\ pr = InitProgress
  /\ op = "init"
  /\ arg = << >>
  /\ ret = FALSE
  /\ old = InitProgress

InitAny ==
  /\ pr \in AnyProgress
  /\ op = "init"
  /\ arg = << >>
  /\ ret = FALSE
  /\ old = pr

Next ==
  \/ CallBecomeProbe
  \/ CallBecomeReplicate
  \/ CallBecomeSnapshot
  \/ CallMaybeUpdate
  \/ CallOptimisticUpdate
  \/ CallMaybeDecrTo
  \/ CallProbeAcked
  \/ CallIsPaused
  \/ SendProbe
  \/ SendAppend
  \/ FreeInflights

\* The Progress of a new follower under every sequence of calls.
Spec == Init /\ [][Next]_vars

\* One call on a Progress that no call has been made on yet.
NextOnce ==
  \/ op = "init" /\ CallBecomeProbe
  \/ op = "init" /\ CallBecomeReplicate
  \/ op = "init" /\ CallBecomeSnapshot
  \/ op = "init" /\ CallMaybeUpdate
  \/ op = "init" /\ CallOptimisticUpdate
  \/ op = "init" /\ CallMaybeDecrTo
  \/ op = "init" /\ CallProbeAcked
  \/ op = "init" /\ CallIsPaused
  \/ op = "init" /\ SendProbe
  \/ op = "init" /\ SendAppend
  \/ op = "init" /\ FreeInflights

\* Every Progress value under every single call.  AnyProgress is closed under
\* the calls, so one call from each of its values covers every sequence.
SpecAny == InitAny /\ [][NextOnce]_vars

CallMaybeUpdateAck == \E n \in 0..MaxAck : CallRet("MaybeUpdate", <<n>>, MaybeUpdate(pr, n))

\* The Progress of a new follower under acknowledgements alone.
SpecUpdates == Init /\ [][CallMaybeUpdateAck]_vars

\* The sender sends the entries from Next on: the last index sent is at least Next.
CallOptimisticUpdateSent ==
  \E n \in Index :
    /\ n >= pr.Next
    /\ Call("OptimisticUpdate", <<n>>, OptimisticUpdate(pr, n))

NextSends ==
  \/ CallBecomeProbe
  \/ CallBecomeReplicate
  \/ CallBecomeSnapshot
  \/ CallMaybeUpdate
  \/ CallOptimisticUpdateSent
  \/ CallMaybeDecrTo
  \/ CallProbeAcked
  \/ CallIsPaused
  \/ SendProbe
  \/ SendAppend
  \/ FreeInflights

\* The Progress of a new follower under every sequence of calls in which
\* nothing below Next is sent.
SpecSends == Init /\ [][NextSends]_vars

---------------------------------------------------------------------------
\* Two fixed sequences of calls.  In these op records the step of the sequence
\* that was made last, so that each step follows the one before it.

\* The round trip BecomeProbe; BecomeReplicate; BecomeSnapshot(5); BecomeProbe,
\* from any Progress.
RoundTrip1 == op = "init" /\ Call("RoundTrip1", << >>, BecomeProbe(pr))

RoundTrip2 == op = "RoundTrip1" /\ Call("RoundTrip2", << >>, BecomeReplicate(pr))

RoundTrip3 == op = "RoundTrip2" /\ Call("RoundTrip3", <<5>>, BecomeSnapshot(pr, 5))

RoundTrip4 == op = "RoundTrip3" /\ Call("RoundTrip4", << >>, BecomeProbe(pr))

\* The recovery of a probed follower, from the Progress of a follower just
\* added: OptimisticUpdate(1); MaybeDecrTo(1, 0); MaybeUpdate(1);
\* BecomeReplicate.
Recovery1 ==
  /\ op = "init"
  /\ pr = InitProgress
  /\ Call("Recovery1", <<1>>, OptimisticUpdate(pr, 1))

Recovery2 == op = "Recovery1" /\ CallRet("Recovery2", <<1, 0>>, MaybeDecrTo(pr, 1, 0))

Recovery3 == op = "Recovery2" /\ CallRet("Recovery3", <<1>>, MaybeUpdate(pr, 1))

Recovery4 == op = "Recovery3" /\ Call("Recovery4", << >>, BecomeReplicate(pr))

NextSequences ==
  \/ RoundTrip1
  \/ RoundTrip2
  \/ RoundTrip3
  \/ RoundTrip4
  \/ Recovery1
  \/ Recovery2
  \/ Recovery3
  \/ Recovery4

\* The Progress values the round trip starts from: Match on either side of the
\* snapshot index 5.
SequenceProgress ==
  [Match : 0..MaxMatch, Next : 1..(MaxIndex + 1), State : StateType,
   PendingSnapshot : Index, ProbeSent : BOOLEAN, Inflights : Windows]

InitSequences ==
  /\ pr \in SequenceProgress
  /\ op = "init"
  /\ arg = << >>
  /\ ret = FALSE
  /\ old = pr

\* The two sequences, each from the Progress values it starts from.
SpecSequences == InitSequences /\ [][NextSequences]_vars

---------------------------------------------------------------------------
\* Properties.

\* C1: no call lowers Match, and only MaybeUpdate changes it.
C1_MatchNeverDecreases ==
  /\ pr.Match >= old.Match
  /\ pr.Match # old.Match => op = "MaybeUpdate"

\* An acknowledgement has raised a Match that was already above 0.
C1_Witness == op = "MaybeUpdate" /\ old.Match > 0 /\ pr.Match > old.Match

\* C2: from the initial Progress, after every MaybeUpdate of a sequence of
\* MaybeUpdate calls, Match has not decreased and Next >= Match + 1.
C2_UpdatesKeepNextAboveMatch ==
  /\ pr.Match >= old.Match
  /\ pr.Next >= pr.Match + 1

\* A stale acknowledgement after Match has advanced.
C2_Witness ==
  /\ op = "MaybeUpdate"
  /\ old.Match > 1
  /\ arg[1] < old.Match
  /\ pr.Next = pr.Match + 1

\* C3: MaybeUpdate(n) returns true exactly when n > Match; afterwards Match is
\* the larger of the old Match and n, Next the larger of the old Next and n+1;
\* when it returns true ProbeSent is cleared; when n <= Match it returns false
\* with Match and State unchanged; State, PendingSnapshot and the inflight
\* window never change.
C3_MaybeUpdateEffect ==
  op = "MaybeUpdate" =>
    LET n == arg[1]
    IN  /\ ret = (n > old.Match)
        /\ pr.Match = max(old.Match, n)
        /\ pr.Next = max(old.Next, n + 1)
        /\ ret => ~pr.ProbeSent
        /\ n <= old.Match => (~ret /\ pr.Match = old.Match /\ pr.State = old.State)
        /\ pr.State = old.State
        /\ pr.PendingSnapshot = old.PendingSnapshot
        /\ pr.Inflights = old.Inflights

\* A fresh acknowledgement of a paused probe that also raises Next.
C3_Witness ==
  /\ op = "MaybeUpdate"
  /\ ret
  /\ old.ProbeSent
  /\ ~pr.ProbeSent
  /\ pr.Next > old.Next

C5_UpdateIdempotentCommutes ==
  op = "MaybeUpdate" =>
    LET a == arg[1]
    IN  /\ MaybeUpdate(pr, a) = [pr |-> pr, ret |-> FALSE]
        /\ \A b \in Index :
             MaybeUpdate(pr, b).pr = MaybeUpdate(MaybeUpdate(old, b).pr, a).pr

\* A fresh acknowledgement a of a paused probe that raised Next, with a larger
\* index b left to acknowledge.
C5_Witness ==
  /\ op = "MaybeUpdate"
  /\ ret
  /\ old.ProbeSent
  /\ old.Next <= arg[1]
  /\ arg[1] < MaxIndex

\* C6: in StateReplicate MaybeDecrTo(rejected, matchHint) returns true exactly
\* when rejected > Match; when it returns false nothing changes; when it
\* returns true Next becomes Match + 1 whatever the hint and nothing else
\* changes.
C6_DecrInReplicate ==
  (op = "MaybeDecrTo" /\ old.State = StateReplicate) =>
    /\ ret = (arg[1] > old.Match)
    /\ ~ret => pr = old
    /\ ret => pr = [old EXCEPT !.Next = old.Match + 1]

\* A genuine rejection that discards an optimistic window, with messages in
\* flight and a hint above Match.
C6_Witness ==
  /\ op = "MaybeDecrTo"
  /\ old.State = StateReplicate
  /\ ret
  /\ old.Next > old.Match + 1
  /\ old.Inflights # << >>
  /\ arg[2] > old.Match
  /\ pr.Next = old.Match + 1

C8_BecomeProbeEffect ==
  op = "BecomeProbe" =>
    pr = [old EXCEPT !.State = StateProbe,
                     !.ProbeSent = FALSE,
                     !.PendingSnapshot = 0,
                     !.Inflights = << >>,
                     !.Next = IF old.State = StateSnapshot
                                THEN max(old.Match + 1, old.PendingSnapshot + 1)
                                ELSE old.Match + 1]

\* BecomeProbe after a snapshot beyond Match: probing resumes after the snapshot.
C8_Witness ==
  /\ op = "BecomeProbe"
  /\ old.State = StateSnapshot
  /\ old.Match > 0
  /\ old.PendingSnapshot > old.Match
  /\ pr.Next = old.PendingSnapshot + 1

\* C9: BecomeReplicate from any Progress ends in StateReplicate with
\* Next = Match + 1, ProbeSent false, PendingSnapshot 0 and an empty inflight
\* window; Match is unchanged.
C9_BecomeReplicateEffect ==
  op = "BecomeReplicate" =>
    pr = [old EXCEPT !.State = StateReplicate,
                     !.Next = old.Match + 1,
                     !.ProbeSent = FALSE,
                     !.PendingSnapshot = 0,
                     !.Inflights = << >>]

\* BecomeReplicate on a Progress with every field to be reset set.
C9_Witness ==
  /\ op = "BecomeReplicate"
  /\ old.State = StateSnapshot
  /\ old.ProbeSent
  /\ old.PendingSnapshot > 0
  /\ old.Inflights # << >>
  /\ old.Next # old.Match + 1
  /\ old.Match > 0

\* C10: BecomeSnapshot(i) from any Progress ends in StateSnapshot with
\* PendingSnapshot = i, ProbeSent false and an empty inflight window; Match
\* and Next are unchanged.
C10_BecomeSnapshotEffect ==
  op = "BecomeSnapshot" =>
    pr = [old EXCEPT !.State = StateSnapshot,
                     !.PendingSnapshot = arg[1],
                     !.ProbeSent = FALSE,
                     !.Inflights = << >>]

\* BecomeSnapshot on a replicating Progress with messages in flight and an
\* optimistic Next.
C10_Witness ==
  /\ op = "BecomeSnapshot"
  /\ old.State = StateReplicate
  /\ old.Inflights # << >>
  /\ old.Next > old.Match + 1
  /\ arg[1] > 0
  /\ pr.Next = old.Next

\* C11: IsPaused is true in StateSnapshot whatever the other fields, equals
\* ProbeSent in StateProbe and equals the fullness of the inflight window in
\* StateReplicate; the state after a Become* call is never one IsPaused
\* panics on.
C11_IsPausedByState ==
  /\ op = "IsPaused" =>
       /\ pr = old
       /\ pr.State = StateSnapshot => ret = TRUE
       /\ pr.State = StateProbe => ret = pr.ProbeSent
       /\ pr.State = StateReplicate => ret = (Len(pr.Inflights) = InflightsCap)
  /\ op \in {"BecomeProbe", "BecomeReplicate", "BecomeSnapshot"} => ~IsPausedPanics(pr)

\* IsPaused on a snapshotting Progress with no probe sent and a window not full.
C11_Witness ==
  /\ op = "IsPaused"
  /\ pr.State = StateSnapshot
  /\ ~pr.ProbeSent
  /\ Len(pr.Inflights) < InflightsCap
  /\ ret = TRUE

\* C12: in every state reachable from the initial Progress Next >= 1; a
\* genuine rejection in StateProbe or StateSnapshot, whatever the hint, never
\* leaves Next at 0.
C12_NextAtLeastOne ==
  /\ pr.Next >= 1
  /\ (op = "MaybeDecrTo" /\ ret /\ old.State # StateReplicate) => pr.Next # 0

\* A genuine rejection of index 0 with hint 0 while a snapshot is pending.
C12_Witness ==
  /\ op = "MaybeDecrTo"
  /\ old.State = StateSnapshot
  /\ arg = <<0, 0>>
  /\ ret
  /\ pr.Next = 1

\* C13: from any Progress, BecomeProbe; BecomeReplicate; BecomeSnapshot(5);
\* BecomeProbe ends in StateProbe with PendingSnapshot = 0 and
\* Next = max(Match + 1, 6), which is at least Match + 1.
C13_RoundTripEndsInProbe ==
  op = "RoundTrip4" =>
    /\ pr.State = StateProbe
    /\ pr.PendingSnapshot = 0
    /\ pr.Next = max(pr.Match + 1, 6)
    /\ pr.Next >= pr.Match + 1

\* The end of a round trip on a Progress whose Match lags the snapshot:
\* probing resumes right after the snapshot.
C13_Witness ==
  /\ op = "RoundTrip4"
  /\ old.State = StateSnapshot
  /\ old.PendingSnapshot = 5
  /\ pr.Match > 0
  /\ pr.Next = 6
  /\ pr.State = StateProbe

\* C14: from (Probe, Match 0, Next 1), OptimisticUpdate(1) gives Next = 2;
\* MaybeDecrTo(1, 0) then returns true with Next = 1 and ProbeSent false;
\* MaybeUpdate(1) then returns true with Match = 1 and Next = 2;
\* BecomeReplicate then gives StateReplicate, Next = 2 and an empty window.
C14_ProbeRecovery ==
  /\ op = "Recovery1" => pr.Next = 2
  /\ op = "Recovery2" => (ret /\ pr.Next = 1 /\ ~pr.ProbeSent)
  /\ op = "Recovery3" => (ret /\ pr.Match = 1 /\ pr.Next = 2)
  /\ op = "Recovery4" =>
       /\ pr.State = StateReplicate
       /\ pr.Next = 2
       /\ pr.Match = 1
       /\ pr.Inflights = << >>

\* The end of the recovery: replicating from index 2.
C14_Witness ==
  /\ op = "Recovery4"
  /\ old.State = StateProbe
  /\ pr.State = StateReplicate
  /\ pr.Next = 2

StrictlyIncreasing(s) == \A i \in 1..Len(s) : \A j \in 1..Len(s) : i < j => s[i] < s[j]

BecomeCalls == {"BecomeProbe", "BecomeReplicate", "BecomeSnapshot"}

\* C15: with indices added in increasing order the window is strictly
\* increasing after every call; an add appends its index; FreeLE(n) drops
\* exactly the entries <= n, which are the oldest, and keeps the others in
\* their order, so the window stays a suffix of what was added since the last
\* reset; after a reset the count is 0.
C15_WindowSortedSuffix ==
  /\ StrictlyIncreasing(pr.Inflights)
  /\ op = "InflightsAdd" => pr.Inflights = Append(old.Inflights, arg[1])
  /\ op = "InflightsFreeLE" =>
       \E k \in 0..Len(old.Inflights) :
         /\ pr.Inflights = SubSeq(old.Inflights, k + 1, Len(old.Inflights))
         /\ \A i \in 1..k : old.Inflights[i] <= arg[1]
         /\ \A i \in (k + 1)..Len(old.Inflights) : old.Inflights[i] > arg[1]
  /\ op \in BecomeCalls => InflightsCount(pr.Inflights) = 0

\* Three indices added, then freed through the second: exactly the third is left.
C15_Witness ==
  /\ op = "InflightsFreeLE"
  /\ Len(old.Inflights) = 3
  /\ arg[1] = old.Inflights[2]
  /\ pr.Inflights = <<old.Inflights[3]>>

\* C16 as stated: the count never exceeds the capacity, the window is full
\* exactly at the capacity, a replicating follower is paused exactly then, and
\* a paused replicating follower is no longer paused once FreeLE or any
\* Become* call has removed an entry.
C16_UnpausedAfterAnyRemoval ==
  /\ InflightsCount(pr.Inflights) <= InflightsCap
  /\ InflightsFull(pr.Inflights) = (InflightsCount(pr.Inflights) = InflightsCap)
  /\ pr.State = StateReplicate =>
       IsPaused(pr) = (InflightsCount(pr.Inflights) = InflightsCap)
  /\ ( /\ old.State = StateReplicate
       /\ IsPaused(old)
       /\ op \in BecomeCalls \cup {"InflightsFreeLE"}
       /\ Len(pr.Inflights) < Len(old.Inflights) ) => ~IsPaused(pr)

\* C16 as amended: as above, but only FreeLE, BecomeProbe and BecomeReplicate
\* unpause the follower; after BecomeSnapshot it is paused, by its state.
C16_UnpausedAfterRemoval ==
  /\ InflightsCount(pr.Inflights) <= InflightsCap
  /\ InflightsFull(pr.Inflights) = (InflightsCount(pr.Inflights) = InflightsCap)
  /\ pr.State = StateReplicate =>
       IsPaused(pr) = (InflightsCount(pr.Inflights) = InflightsCap)
  /\ ( /\ old.State = StateReplicate
       /\ IsPaused(old)
       /\ op \in {"InflightsFreeLE", "BecomeProbe", "BecomeReplicate"}
       /\ Len(pr.Inflights) < Len(old.Inflights) ) => ~IsPaused(pr)
  /\ ( /\ old.State = StateReplicate
       /\ IsPaused(old)
       /\ op = "BecomeSnapshot" ) => IsPaused(pr)

\* A full window, one message of which has just been freed.
C16_Witness ==
  /\ op = "InflightsFreeLE"
  /\ old.State = StateReplicate
  /\ IsPaused(old)
  /\ Len(pr.Inflights) = InflightsCap - 1
  /\ ~IsPaused(pr)

\* C17: under Become* calls, acknowledgements, rejections with any index and
\* hint, and sends of indices >= Next, Next >= Match + 1 in every state.
C17_NextAboveMatch == pr.Next >= pr.Match + 1

\* C18: with the sender setting ProbeSent only in StateProbe and adding to the
\* window only in StateReplicate, PendingSnapshot # 0 only in StateSnapshot,
\* ProbeSent only in StateProbe and the window is non-empty only in
\* StateReplicate; every Become* call leaves ProbeSent false, the window empty
\* and PendingSnapshot 0, but for BecomeSnapshot, which sets it to its argument.
C18_FieldsScopedToState ==
  /\ pr.PendingSnapshot # 0 => pr.State = StateSnapshot
  /\ pr.ProbeSent => pr.State = StateProbe
  /\ pr.Inflights # << >> => pr.State = StateReplicate
  /\ op \in BecomeCalls =>
       /\ ~pr.ProbeSent
       /\ pr.Inflights = << >>
       /\ pr.PendingSnapshot = IF op = "BecomeSnapshot" THEN arg[1] ELSE 0

\* BecomeReplicate on a follower whose probe was in flight.
C18_Witness ==
  /\ op = "BecomeReplicate"
  /\ old.State = StateProbe
  /\ old.ProbeSent
  /\ pr.State = StateReplicate
  /\ ~pr.ProbeSent

\* C19: MaybeUpdate, OptimisticUpdate, MaybeDecrTo and ProbeAcked never change
\* State or PendingSnapshot; so from StateSnapshot every call but a Become*
\* call leaves State, PendingSnapshot and IsPaused() = true as they are.
C19_OnlyBecomeChangesState ==
  /\ op \in {"MaybeUpdate", "OptimisticUpdate", "MaybeDecrTo", "ProbeAcked"} =>
       /\ pr.State = old.State
       /\ pr.PendingSnapshot = old.PendingSnapshot
  /\ (old.State = StateSnapshot /\ op \notin BecomeCalls \cup {"init"}) =>
       /\ pr.State = StateSnapshot
       /\ pr.PendingSnapshot = old.PendingSnapshot
       /\ IsPaused(pr)

\* An acknowledgement that reaches the pending snapshot's index leaves the
\* follower in StateSnapshot.
C19_Witness ==
  /\ op = "MaybeUpdate"
  /\ ret
  /\ old.State = StateSnapshot
  /\ old.PendingSnapshot > 0
  /\ pr.Match >= pr.PendingSnapshot
  /\ pr.State = StateSnapshot
  /\ pr.PendingSnapshot = old.PendingSnapshot

\* C20: a paused probe (StateProbe, ProbeSent) is no longer paused after
\* MaybeUpdate returning true, MaybeDecrTo returning true or ProbeAcked;
\* ProbeAcked changes ProbeSent alone; only these three and the Become* calls
\* clear ProbeSent, so a paused probe stays paused across OptimisticUpdate and
\* stale acknowledgements and rejections.
C20_ProbeReleasedByResponse ==
  /\ ( /\ old.State = StateProbe
       /\ old.ProbeSent
       /\ \/ op = "MaybeUpdate" /\ ret
          \/ op = "MaybeDecrTo" /\ ret
          \/ op = "ProbeAcked" ) => ~IsPaused(pr)
  /\ op = "ProbeAcked" => pr = [old EXCEPT !.ProbeSent = FALSE]
  /\ (op # "init" /\ old.ProbeSent /\ ~pr.ProbeSent) =>
       \/ op \in BecomeCalls \cup {"ProbeAcked"}
       \/ op \in {"MaybeUpdate", "MaybeDecrTo"} /\ ret
  /\ ( /\ old.State = StateProbe
       /\ old.ProbeSent
       /\ \/ op = "OptimisticUpdate"
          \/ op = "MaybeUpdate" /\ ~ret
          \/ op = "MaybeDecrTo" /\ ~ret ) => IsPaused(pr)

\* A genuine rejection releases a paused probe.
C20_Witness ==
  /\ op = "MaybeDecrTo"
  /\ ret
  /\ old.State = StateProbe
  /\ old.ProbeSent
  /\ IsPaused(old)
  /\ ~IsPaused(pr)

===========================================================================
